---- MODULE Spec2Model ----
(***************************************************************************)
(* Model of hamming_lsh: a locality-sensitive-hash index over 128-bit      *)
(* Hamming codes (src/src/lib.rs, and the copy in src/src/main.rs).        *)
(*                                                                         *)
(* A HammingCode (u128) is represented exactly as the set of its set bit   *)
(* positions, a subset of 0..127: a & b is intersection, a ^ b symmetric   *)
(* difference, count_ones cardinality, 1 << p the singleton {p}.  The u32  *)
(* hash value is likewise the set of its set bit positions, a subset of    *)
(* 0..31, and a bucket array of 2^e buckets is a function on               *)
(* SUBSET (0..e-1), the bit sets of the indices below 2^e.                 *)
(*                                                                         *)
(* Arithmetic overflow in Rust depends on the build: with overflow checks  *)
(* (the debug profile) a shift by the type's width or more panics, without *)
(* them (the release profile) the shift amount is masked to the width.     *)
(* The variable `checks` is that build option, chosen in Init.  usize is    *)
(* taken to be 64 bits wide.                                               *)
(*                                                                         *)
(* A panic (a slice or index out of range, a checked shift) ends the       *)
(* behaviour: status becomes "panicked" with the index as the unwinding    *)
(* call left it, and no operation follows.  `calls` is the history of the  *)
(* insert calls that returned, and `ret` the last call and its result.     *)
(*                                                                         *)
(* Tables of 33 to 63 hyperplanes are not built: their 2^k bucket arrays   *)
(* are beyond the model (and beyond most machines' memory).  hash itself   *)
(* is exercised on up to 128 planes under SpecPure.                        *)
(***************************************************************************)
EXTENDS Integers, Sequences, FiniteSets, TLC

VARIABLES status, checks, tables, data, calls, ret

vars == <<status, checks, tables, data, calls, ret>>

-----------------------------------------------------------------------------
(* Widths *)

CodeBits == 128

HashBits == 32

UsizeBits == 64

Positions == 0 .. (CodeBits - 1)

(* Bounds of the model *)

MaxTables == 2

MaxInserts == 2

Ks == {0, 1, 2, 64, 129}

Seeds == {<<0, 1>>, <<1, 1>>}

Codes == {{}, {0}, {1}, {0, 2}}

Queries == Codes \cup {{2}}

Payloads == {"a", "b"}

HashKs == {0, 1, 2, 3, 32, 33, 34, 128}

PeturbBits == {0, 1, 2, 3, 64, 127, 128, 129}

PureCodes == SUBSET {0, 1, 32, 33} \cup {Positions, Positions \ {0}}

-----------------------------------------------------------------------------
(* Option<T> *)

None == <<>>

Some(x) == <<x>>

IsSome(o) == o /= <<>>

(* u32 values that do not fit a model integer are kept as two 16-bit limbs *)

U32_MAX == <<65535, 65535>>

ToU32(n) == <<n \div 65536, n % 65536>>

LtU32(a, b) == a[1] < b[1] \/ (a[1] = b[1] /\ a[2] < b[2])

(* (0..128).collect() then shuffle: a permutation of the bit positions.    *)
(* The permutations drawn are the affine ones i |-> start + step * i mod   *)
(* 128 with an odd step.                                                   *)
Shuffle(seed) == [i \in 1 .. CodeBits |-> (seed[1] + seed[2] * (i - 1)) % CodeBits]

-----------------------------------------------------------------------------
(* lib.rs: free functions *)

hamming_distance_or(a, b) == Cardinality(a \cup b)

hamming_distance(a, b) == Cardinality((a \ b) \cup (b \ a))

(* The loop of hash, in closed form: pass i (0-based) computes h << i and   *)
(* ORs it into the u32 accumulator.  A shift amount i >= 32 panics in a    *)
(* build with overflow checks, whatever h is; without them the amount is   *)
(* masked to i % 32.                                                       *)
hash(planes, v, chk) ==
    IF chk /\ Len(planes) > HashBits
    THEN [panic |-> TRUE, val |-> {}]
    ELSE [panic |-> FALSE,
          val |-> {i % HashBits : i \in {j \in 0 .. (Len(planes) - 1) :
                                             v \cap planes[j + 1] /= {}}}]

(* The loop of hamming_peturb, in closed form: a ^= 1 << b[i] for each of  *)
(* the first `bits` entries of b, so a position ends up flipped when it    *)
(* occurs an odd number of times among them.  Slicing b[0..bits] panics    *)
(* when bits > 128.                                                        *)
hamming_peturb_replace(v, bits, b) ==
    IF bits > Len(b) THEN [panic |-> TRUE, val |-> v]
    ELSE LET flips == {p \in Positions :
                          Cardinality({i \in 1 .. bits : b[((i - 1) % 64) + 1] = p}) % 2 = 1}
         IN  [panic |-> FALSE, val |-> (v \ flips) \cup (flips \ v)]

hamming_peturb(v, bits, b) ==
    IF bits > Len(b) THEN [panic |-> TRUE, val |-> v]
    ELSE LET flips == {p \in Positions :
                          Cardinality({i \in 1 .. bits : b[i] = p}) % 2 = 1}
         IN  [panic |-> FALSE, val |-> (v \ flips) \cup (flips \ v)]

RECURSIVE nearestLoop(_, _, _, _, _)
nearestLoop(candidates, v, n, min, best) ==
    IF n > Len(candidates) THEN best
    ELSE LET c == candidates[n]
         IN  IF IsSome(c)
             THEN LET d == ToU32(hamming_distance(c[1][1], v))
                  IN  IF LtU32(d, min)
                      THEN nearestLoop(candidates, v, n + 1, d, Some(c[1]))
                      ELSE nearestLoop(candidates, v, n + 1, min, best)
             ELSE nearestLoop(candidates, v, n + 1, min, best)

RECURSIVE nearestLoop_le(_, _, _, _, _)
nearestLoop_le(candidates, v, n, min, best) ==
    IF n > Len(candidates) THEN best
    ELSE LET c == candidates[n]
         IN  IF IsSome(c)
             THEN LET d == ToU32(hamming_distance(c[1][1], v))
                  IN  IF ~LtU32(min, d)
                      THEN nearestLoop_le(candidates, v, n + 1, d, Some(c[1]))
                      ELSE nearestLoop_le(candidates, v, n + 1, min, best)
             ELSE nearestLoop_le(candidates, v, n + 1, min, best)

nearest_le(candidates, v) == nearestLoop_le(candidates, v, 1, U32_MAX, None)

nearest(candidates, v) == nearestLoop(candidates, v, 1, U32_MAX, None)

-----------------------------------------------------------------------------
(* lib.rs: HammingTable *)

(* b[0..k].iter().map(|a| 1 << a): the masks of the first k positions of b *)
Hyperplanes(k, b) == [j \in 1 .. k |-> {b[j]}]

Table_new(k, b, chk) ==
    IF k > CodeBits THEN [panic |-> TRUE, table |-> None]
    ELSE IF k >= UsizeBits /\ chk THEN [panic |-> TRUE, table |-> None]
    ELSE [panic |-> FALSE,
          table |-> [hyperplanes |-> Hyperplanes(k, b),
                     buckets |-> [h \in SUBSET (0 .. ((k % UsizeBits) - 1)) |-> <<>>]]]

Table_hash(t, v, chk) == hash(t.hyperplanes, v, chk)

Table_insert_bucket0(t, k, v, chk) ==
    LET h == Table_hash(t, k, chk)
    IN  IF h.panic \/ h.val \notin DOMAIN t.buckets
        THEN [panic |-> TRUE, table |-> t]
        ELSE [panic |-> FALSE,
              table |-> [t EXCEPT !.buckets[{}] = Append(@, Some(<<k, v>>))]]

Table_insert_prepend(t, k, v, chk) ==
    LET h == Table_hash(t, k, chk)
    IN  IF h.panic \/ h.val \notin DOMAIN t.buckets
        THEN [panic |-> TRUE, table |-> t]
        ELSE [panic |-> FALSE,
              table |-> [t EXCEPT !.buckets[h.val] = <<Some(<<k, v>>)>> \o @]]

Table_insert(t, k, v, chk) ==
    LET h == Table_hash(t, k, chk)
    IN  IF h.panic \/ h.val \notin DOMAIN t.buckets
        THEN [panic |-> TRUE, table |-> t]
        ELSE [panic |-> FALSE,
              table |-> [t EXCEPT !.buckets[h.val] = Append(@, Some(<<k, v>>))]]

Table_get_allBuckets(t, k, chk) ==
    LET h == Table_hash(t, k, chk)
    IN  IF h.panic \/ h.val \notin DOMAIN t.buckets
        THEN [panic |-> TRUE, val |-> None]
        ELSE [panic |-> FALSE,
              val |-> nearest(IF t.buckets[h.val] = <<>> /\ {} \in DOMAIN t.buckets
                              THEN t.buckets[{}] ELSE t.buckets[h.val], k)]

Table_get(t, k, chk) ==
    LET h == Table_hash(t, k, chk)
    IN  IF h.panic \/ h.val \notin DOMAIN t.buckets
        THEN [panic |-> TRUE, val |-> None]
        ELSE [panic |-> FALSE, val |-> nearest(t.buckets[h.val], k)]

-----------------------------------------------------------------------------
(* lib.rs: HammingLSH *)

RECURSIVE newLoop(_, _, _, _, _)
newLoop(k, bs, n, acc, chk) ==
    IF n > Len(bs) THEN [panic |-> FALSE, tables |-> acc]
    ELSE LET t == Table_new(k, Shuffle(bs[n]), chk)
         IN  IF t.panic THEN [panic |-> TRUE, tables |-> acc]
             ELSE newLoop(k, bs, n + 1, Append(acc, t.table), chk)

LSH_new(k, bs, chk) == newLoop(k, bs, 1, <<>>, chk)

RECURSIVE insertLoop(_, _, _, _, _)
insertLoop(ts, n, k, i, chk) ==
    IF n > Len(ts) THEN [panic |-> FALSE, tables |-> ts]
    ELSE LET r == Table_insert(ts[n], k, i, chk)
         IN  IF r.panic THEN [panic |-> TRUE, tables |-> ts]
             ELSE insertLoop([ts EXCEPT ![n] = r.table], n + 1, k, i, chk)

LSH_insert_lenAfterPush(ts, d, k, v, chk) ==
    LET i == Len(Append(d, v))
        r == insertLoop(ts, 1, k, i, chk)
    IN  [panic |-> r.panic, tables |-> r.tables, data |-> Append(d, v)]

LSH_insert(ts, d, k, v, chk) ==
    LET i == Len(d)
        r == insertLoop(ts, 1, k, i, chk)
    IN  [panic |-> r.panic, tables |-> r.tables, data |-> Append(d, v)]

LSH_candidates(ts, v, chk) == [n \in 1 .. Len(ts) |-> Table_get(ts[n], v, chk)]

LSH_get_firstSome(ts, d, v, chk) ==
    LET got == LSH_candidates(ts, v, chk)
        some == {n \in 1 .. Len(ts) : IsSome(got[n].val)}
        best == IF some = {} THEN None
                ELSE got[CHOOSE n \in some : \A m \in some : n <= m].val
    IN  IF \E n \in 1 .. Len(ts) : got[n].panic
        THEN [panic |-> TRUE, val |-> None]
        ELSE IF IsSome(best)
             THEN IF best[1][2] >= Len(d)
                  THEN [panic |-> TRUE, val |-> None]
                  ELSE [panic |-> FALSE, val |-> Some(<<best[1][1], d[best[1][2] + 1]>>)]
             ELSE [panic |-> FALSE, val |-> None]

LSH_get(ts, d, v, chk) ==
    LET got == LSH_candidates(ts, v, chk)
        c == [n \in 1 .. Len(ts) |-> got[n].val]
        best == nearest(c, v)
    IN  IF \E n \in 1 .. Len(ts) : got[n].panic
        THEN [panic |-> TRUE, val |-> None]
        ELSE IF IsSome(best)
             THEN IF best[1][2] >= Len(d)
                  THEN [panic |-> TRUE, val |-> None]
                  ELSE [panic |-> FALSE, val |-> Some(<<best[1][1], d[best[1][2] + 1]>>)]
             ELSE [panic |-> FALSE, val |-> None]

-----------------------------------------------------------------------------
(* main.rs: the binary's own copy of the index.  Its buckets hold the pairs *)
(* bare, not wrapped in Some, and both get methods carry their own scan.   *)

Bare(bucket) == [n \in 1 .. Len(bucket) |-> bucket[n][1]]

RECURSIVE main_Table_getLoop(_, _, _, _, _)
main_Table_getLoop(bucket, k, n, min, best) ==
    IF n > Len(bucket) THEN best
    ELSE LET d == ToU32(hamming_distance(bucket[n][1], k))
         IN  IF LtU32(d, min)
             THEN main_Table_getLoop(bucket, k, n + 1, d, Some(bucket[n]))
             ELSE main_Table_getLoop(bucket, k, n + 1, min, best)

main_Table_get(t, k, chk) ==
    LET h == Table_hash(t, k, chk)
    IN  IF h.panic \/ h.val \notin DOMAIN t.buckets
        THEN [panic |-> TRUE, val |-> None]
        ELSE [panic |-> FALSE,
              val |-> main_Table_getLoop(Bare(t.buckets[h.val]), k, 1, U32_MAX, None)]

RECURSIVE main_LSH_getLoop(_, _, _, _, _, _, _)
main_LSH_getLoop(ts, d, v, chk, n, min, best) ==
    IF n > Len(ts) THEN [panic |-> FALSE, val |-> best]
    ELSE LET c == main_Table_get(ts[n], v, chk)
         IN  IF c.panic THEN [panic |-> TRUE, val |-> None]
             ELSE IF IsSome(c.val)
             THEN LET dist == ToU32(hamming_distance(c.val[1][1], v))
                  IN  IF LtU32(dist, min)
                      THEN IF c.val[1][2] >= Len(d)
                           THEN [panic |-> TRUE, val |-> None]
                           ELSE main_LSH_getLoop(ts, d, v, chk, n + 1, dist,
                                    Some(<<c.val[1][1], d[c.val[1][2] + 1]>>))
                      ELSE main_LSH_getLoop(ts, d, v, chk, n + 1, min, best)
             ELSE main_LSH_getLoop(ts, d, v, chk, n + 1, min, best)

main_LSH_get(ts, d, v, chk) == main_LSH_getLoop(ts, d, v, chk, 1, U32_MAX, None)

-----------------------------------------------------------------------------
(* The index as a state machine *)

Init ==
    /\ status = "init"
    /\ checks \in BOOLEAN
    /\ tables = <<>>
    /\ data = <<>>
    /\ calls = <<>>
    /\ ret = [op |-> "none"]

New ==
    /\ status = "init"
    /\ \E k \in Ks, l \in 0 .. MaxTables :
         \E bs \in [1 .. l -> Seeds] :
           LET r == LSH_new(k, bs, checks)
           IN  /\ status' = IF r.panic THEN "panicked" ELSE "ok"
               /\ tables' = IF r.panic THEN <<>> ELSE r.tables
               /\ ret' = [op |-> "new", k |-> k, l |-> l]
    /\ UNCHANGED <<checks, data, calls>>

Insert ==
    /\ status = "ok"
    /\ Len(calls) < MaxInserts
    /\ \E k \in Codes, v \in Payloads :
         LET r == LSH_insert(tables, data, k, v, checks)
         IN  /\ status' = IF r.panic THEN "panicked" ELSE "ok"
             /\ tables' = r.tables
             /\ data' = r.data
             /\ calls' = IF r.panic THEN calls ELSE Append(calls, <<k, v>>)
             /\ ret' = [op |-> "insert", k |-> k, v |-> v]
    /\ UNCHANGED checks

Get ==
    /\ status = "ok"
    /\ \E q \in Queries :
         LET r == LSH_get(tables, data, q, checks)
         IN  /\ status' = IF r.panic THEN "panicked" ELSE "ok"
             /\ ret' = [op |-> "get", q |-> q, res |-> r.val,
                        main |-> main_LSH_get(tables, data, q, checks)]
    /\ UNCHANGED <<checks, tables, data, calls>>

Next == New \/ Insert \/ Get

Spec == Init /\ [][Next]_vars

-----------------------------------------------------------------------------
(* The free functions called on their own, on inputs drawn from the sets   *)
(* above: each call records its arguments and its result in ret.  The      *)
(* functions keep no state, so one call per behaviour covers them.         *)

InitPure ==
    /\ status = "pure"
    /\ checks \in BOOLEAN
    /\ tables = <<>>
    /\ data = <<>>
    /\ calls = <<>>
    /\ ret = [op |-> "none"]

CallHash ==
    /\ ret.op = "none"
    /\ \E k \in HashKs, seed \in Seeds, v \in PureCodes :
         LET planes == Hyperplanes(k, Shuffle(seed))
             r == hash(planes, v, checks)
         IN  ret' = [op |-> "hash", planes |-> planes, v |-> v,
                     panic |-> r.panic, val |-> r.val]
    /\ UNCHANGED <<status, checks, tables, data, calls>>

CallPeturb ==
    /\ ret.op = "none"
    /\ \E v \in PureCodes, bits \in PeturbBits, seed \in Seeds :
         LET r == hamming_peturb(v, bits, Shuffle(seed))
         IN  ret' = [op |-> "peturb", v |-> v, bits |-> bits,
                     panic |-> r.panic, val |-> r.val]
    /\ UNCHANGED <<status, checks, tables, data, calls>>

CallDistance ==
    /\ ret.op = "none"
    /\ \E a \in PureCodes, b \in PureCodes :
         ret' = [op |-> "distance", a |-> a, b |-> b, d |-> hamming_distance(a, b)]
    /\ UNCHANGED <<status, checks, tables, data, calls>>

NextPure == CallHash \/ CallPeturb \/ CallDistance

SpecPure == InitPure /\ [][NextPure]_vars

-----------------------------------------------------------------------------
(* Vocabulary of the properties *)

Slots(t) == UNION {{<<h, p>> : p \in 1 .. Len(t.buckets[h])} : h \in DOMAIN t.buckets}

EntryAt(t, s) == t.buckets[s[1]][s[2]]

DistTo(e, q) == hamming_distance(e[1][1], q)

IsPrefix(s, t) == Len(s) <= Len(t) /\ SubSeq(t, 1, Len(s)) = s

Stored(n) == Some(<<calls[n][1], n - 1>>)

-----------------------------------------------------------------------------
(* C1: after any sequence of completed inserts, data holds one payload per *)
(* insert call, and every table holds the pair (code, i) of insertion i in *)
(* exactly one slot, which lies in the bucket the table's hash gives for   *)
(* the code; no table holds a pair that was not inserted.                  *)
C1_InsertedOnceInHashBucket ==
    status = "ok" =>
      /\ Len(data) = Len(calls)
      /\ \A j \in 1 .. Len(tables) :
           LET t == tables[j]
           IN  /\ \A n \in 1 .. Len(calls) :
                    LET hv == hash(t.hyperplanes, calls[n][1], checks)
                        at == {s \in Slots(t) : EntryAt(t, s) = Stored(n)}
                    IN  /\ ~hv.panic
                        /\ hv.val \in DOMAIN t.buckets
                        /\ Cardinality(at) = 1
                        /\ \A s \in at : s[1] = hv.val
               /\ \A s \in Slots(t) :
                    \E n \in 1 .. Len(calls) : EntryAt(t, s) = Stored(n)

C1_Witness ==
    /\ status = "ok"
    /\ Len(tables) = 2
    /\ Len(calls) = 2
    /\ \E h1 \in DOMAIN tables[1].buckets, h2 \in DOMAIN tables[1].buckets :
         /\ h1 /= h2
         /\ tables[1].buckets[h1] = <<Stored(1)>>
         /\ tables[1].buckets[h2] = <<Stored(2)>>
    /\ \E h \in DOMAIN tables[2].buckets :
         tables[2].buckets[h] = <<Stored(1), Stored(2)>>

(* C2: HammingLSH::get returns None exactly when every table's get does;   *)
(* otherwise it returns the code, and the payload data[i], of the result   *)
(* of the first table whose result is at minimum distance from the query   *)
(* among the tables' results, so no table's result is strictly nearer.     *)
(* The copy of get in main.rs returns the same.                            *)
C2_LshGetNearestOfTables ==
    (status = "ok" /\ ret.op = "get") =>
      LET c == [n \in 1 .. Len(tables) |-> Table_get(tables[n], ret.q, checks).val]
          some == {n \in 1 .. Len(tables) : IsSome(c[n])}
      IN  /\ ret.main = [panic |-> FALSE, val |-> ret.res]
          /\ (ret.res = None) <=> (some = {})
          /\ some /= {} =>
               \E n \in some :
                 /\ ret.res = Some(<<c[n][1][1], data[c[n][1][2] + 1]>>)
                 /\ \A m \in some :
                      /\ DistTo(c[n], ret.q) <= DistTo(c[m], ret.q)
                      /\ m < n => DistTo(c[n], ret.q) < DistTo(c[m], ret.q)
          /\ \A m \in some :
               /\ IsSome(ret.res)
               /\ hamming_distance(ret.res[1][1], ret.q) <= DistTo(c[m], ret.q)

C2_Witness ==
    /\ status = "ok"
    /\ ret.op = "get"
    /\ Len(tables) = 2
    /\ LET c1 == Table_get(tables[1], ret.q, checks).val
           c2 == Table_get(tables[2], ret.q, checks).val
       IN  /\ IsSome(c1)
           /\ IsSome(c2)
           /\ c1[1][1] /= c2[1][1]
           /\ DistTo(c1, ret.q) = DistTo(c2, ret.q)
           /\ IsSome(ret.res)
           /\ ret.res[1][1] = c1[1][1]

(* C3: HammingTable::get(q) returns None exactly when the bucket           *)
(* buckets[hash(q)] is empty; otherwise it returns the entry of that       *)
(* bucket at minimum distance from q, and among several at that minimum    *)
(* the one inserted first.                                                  *)
C3_TableGetNearestInBucket ==
    status = "ok" =>
      \A j \in 1 .. Len(tables), q \in Queries :
        LET t == tables[j]
            hv == hash(t.hyperplanes, q, checks)
            r == Table_get(t, q, checks)
        IN  (~hv.panic /\ hv.val \in DOMAIN t.buckets) =>
              LET b == t.buckets[hv.val]
              IN  /\ ~r.panic
                  /\ (r.val = None) <=> (b = <<>>)
                  /\ b /= <<>> =>
                       \E p \in 1 .. Len(b) :
                         /\ r.val = b[p]
                         /\ \A p2 \in 1 .. Len(b) :
                              /\ DistTo(b[p], q) <= DistTo(b[p2], q)
                              /\ p2 < p => DistTo(b[p], q) < DistTo(b[p2], q)

C3_Witness ==
    /\ status = "ok"
    /\ ret.op = "get"
    /\ Len(tables) >= 1
    /\ LET t == tables[1]
           hv == hash(t.hyperplanes, ret.q, checks)
       IN  /\ ~hv.panic
           /\ hv.val \in DOMAIN t.buckets
           /\ Len(t.buckets[hv.val]) = 2
           /\ DistTo(t.buckets[hv.val][1], ret.q) = DistTo(t.buckets[hv.val][2], ret.q)
           /\ t.buckets[hv.val][1][1][1] /= t.buckets[hv.val][2][1][1]
           /\ Table_get(t, ret.q, checks).val = t.buckets[hv.val][1]

(* C4: with at least one table, get(c) of a code c that was inserted       *)
(* returns c itself, at distance 0, with the payload of the earliest       *)
(* insertion of c.                                                          *)
C4_ExactMatchEarliest ==
    (status = "ok" /\ Len(tables) >= 1) =>
      \A n \in 1 .. Len(calls) :
        LET c == calls[n][1]
            first == CHOOSE m \in 1 .. Len(calls) :
                       /\ calls[m][1] = c
                       /\ \A m2 \in 1 .. (m - 1) : calls[m2][1] /= c
            r == LSH_get(tables, data, c, checks)
        IN  /\ r = [panic |-> FALSE, val |-> Some(<<c, calls[first][2]>>)]
            /\ hamming_distance(r.val[1][1], c) = 0
            /\ main_LSH_get(tables, data, c, checks) = r
            /\ (ret.op = "get" /\ ret.q = c) => ret.res = r.val

C4_Witness ==
    /\ status = "ok"
    /\ ret.op = "get"
    /\ Len(tables) = 2
    /\ Len(calls) = 2
    /\ calls[1] = <<ret.q, "a">>
    /\ calls[2] = <<ret.q, "b">>
    /\ ret.res = Some(<<ret.q, "a">>)

(* C5: construction fails exactly when k > 128; when it succeeds every     *)
(* table has k hyperplanes and 2^k empty buckets; and no later insert or   *)
(* get fails on account of k.  (No table of the model has 2^31 buckets or  *)
(* more, so a bucket count of 2^k implies k <= 30.)                        *)
C5_ConstructionFailsFast ==
    /\ ret.op = "new" =>
         /\ (status = "ok") <=> (ret.k <= CodeBits)
         /\ status = "ok" =>
              /\ Len(tables) = ret.l
              /\ \A j \in 1 .. Len(tables) :
                   /\ Len(tables[j].hyperplanes) = ret.k
                   /\ ret.k <= 30
                   /\ Cardinality(DOMAIN tables[j].buckets) = 2 ^ ret.k
                   /\ \A h \in DOMAIN tables[j].buckets : tables[j].buckets[h] = <<>>
    /\ status = "panicked" => ret.op = "new"

(* C6: for at most 128 planes, hash does not fail and its result has bit i *)
(* set exactly when the code has the bit of planes[i] set, for every i     *)
(* below the number of planes, and no other bit.                            *)
C6_HashSelectsPlaneBits ==
    (ret.op = "hash" /\ Len(ret.planes) <= CodeBits) =>
      /\ ~ret.panic
      /\ ret.val = {i \in 0 .. (Len(ret.planes) - 1) : ret.v \cap ret.planes[i + 1] /= {}}

(* The same for at most 32 planes, the width of the u32 result.            *)
HashSelectsPlaneBitsUpTo32 ==
    (ret.op = "hash" /\ Len(ret.planes) <= HashBits) =>
      /\ ~ret.panic
      /\ ret.val = {i \in 0 .. (Len(ret.planes) - 1) : ret.v \cap ret.planes[i + 1] /= {}}

(* C7: for bits <= 128, hamming_peturb(v, bits) does not fail and returns  *)
(* a code at Hamming distance exactly bits from v: v itself for bits = 0,  *)
(* the complement of v for bits = 128.                                      *)
C7_PeturbDistanceIsBits ==
    (ret.op = "peturb" /\ ret.bits <= CodeBits) =>
      /\ ~ret.panic
      /\ hamming_distance(ret.v, ret.val) = ret.bits
      /\ Cardinality((ret.v \ ret.val) \cup (ret.val \ ret.v)) = ret.bits
      /\ ret.bits = 0 => ret.val = ret.v
      /\ ret.bits = CodeBits => ret.val = Positions \ ret.v

C7_Witness ==
    /\ ret.op = "peturb"
    /\ ret.bits = 127
    /\ ret.v = {0, 1, 32}
    /\ ~ret.panic
    /\ hamming_distance(ret.v, ret.val) = 127

(* C8: a step of the index never removes or rewrites a stored payload or   *)
(* entry and never changes a hyperplane set; a get that returns changes    *)
(* nothing; an insert that returns appends its payload at the end of data  *)
(* and, in every table, its entry at the end of exactly one bucket.        *)
C8_AppendOnly ==
    [][status = "ok" =>
         /\ IsPrefix(data, data')
         /\ Len(tables') = Len(tables)
         /\ \A j \in 1 .. Len(tables) :
              /\ tables'[j].hyperplanes = tables[j].hyperplanes
              /\ DOMAIN tables'[j].buckets = DOMAIN tables[j].buckets
              /\ \A h \in DOMAIN tables[j].buckets :
                   IsPrefix(tables[j].buckets[h], tables'[j].buckets[h])
         /\ (status' = "ok" /\ ret'.op = "get") => (tables' = tables /\ data' = data)
         /\ (status' = "ok" /\ ret'.op = "insert") =>
              /\ data' = Append(data, ret'.v)
              /\ \A j \in 1 .. Len(tables) :
                   \E h \in DOMAIN tables[j].buckets :
                     /\ tables'[j].buckets[h] =
                          Append(tables[j].buckets[h], Some(<<ret'.k, Len(data)>>))
                     /\ \A h2 \in DOMAIN tables[j].buckets \ {h} :
                          tables'[j].buckets[h2] = tables[j].buckets[h2]
      ]_vars

C8_Witness ==
    /\ status = "ok"
    /\ ret.op = "insert"
    /\ Len(tables) = 2
    /\ Len(data) = 2
    /\ \E h \in DOMAIN tables[1].buckets :
         /\ Len(tables[1].buckets[h]) = 2
         /\ tables[1].buckets[h][2] = Some(<<ret.k, 1>>)
         /\ tables[1].buckets[h][1][1][1] /= ret.k
    /\ \E h \in DOMAIN tables[2].buckets :
         tables[2].buckets[h] = <<Some(<<ret.k, 1>>)>>

(* C9: hamming_distance is a metric on the codes: symmetric, zero exactly  *)
(* for equal codes, between 0 and 128, and it satisfies the triangle       *)
(* inequality.                                                              *)
C9_DistanceIsMetric ==
    ret.op = "distance" =>
      /\ ret.d = hamming_distance(ret.b, ret.a)
      /\ (ret.d = 0) <=> (ret.a = ret.b)
      /\ 0 <= ret.d
      /\ ret.d <= CodeBits
      /\ ret.b = Positions \ ret.a => ret.d = CodeBits
      /\ \A c \in PureCodes :
           hamming_distance(ret.a, c) <= ret.d + hamming_distance(ret.b, c)

C9_Witness ==
    /\ ret.op = "distance"
    /\ ret.a = {}
    /\ ret.b = Positions
    /\ ret.d = 128

(* C10: every index stored in a table is below data.len(), every stored    *)
(* pair (code, i) is the code of insertion i and data[i] is that           *)
(* insertion's payload, and a get that returns Some((c, p)) returns the    *)
(* code and the payload of one and the same earlier insert call.           *)
C10_PayloadCorrespondence ==
    /\ \A j \in 1 .. Len(tables) :
         \A s \in Slots(tables[j]) : EntryAt(tables[j], s)[1][2] < Len(data)
    /\ status = "ok" =>
         \A j \in 1 .. Len(tables) :
           \A s \in Slots(tables[j]) :
             LET e == EntryAt(tables[j], s)[1]
             IN  calls[e[2] + 1] = <<e[1], data[e[2] + 1]>>
    /\ (ret.op = "get" /\ IsSome(ret.res)) =>
         \E n \in 1 .. Len(calls) :
           /\ calls[n] = ret.res[1]
           /\ data[n] = ret.res[1][2]

C10_Witness ==
    /\ status = "ok"
    /\ ret.op = "get"
    /\ Len(tables) >= 1
    /\ Len(calls) = 2
    /\ calls[1][1] /= calls[2][1]
    /\ calls[1][2] /= calls[2][2]
    /\ ret.res = Some(calls[2])

====
